---- MODULE Spec2Model ----
(***************************************************************************)
(* Model of the student-progression simulator: StudentAgent.step           *)
(* (src/src/agents/student_agent.py), UniversityModel                      *)
(* (src/src/model/university_model.py) and the driver loop of              *)
(* src/src/simulation_runner.py.                                           *)
(*                                                                         *)
(* Floats are kept as integers: academic_ability and gpa in hundredths     *)
(* (0.65 is 65, 2.0 is 200), grade weights in thousandths.                 *)
(* The None of graduation_semester is 0 (semesters count from 1).          *)
(***************************************************************************)
EXTENDS Integers, Sequences, FiniteSets, TLC

\* ------------------------------------------------------------------------
\* Input data: catalog, study plans, profiles, populations
\* ------------------------------------------------------------------------

\* A course catalog as loaded from data/course_catalog.json.  "X" is used in
\* study plans but has no catalog entry.
course_catalog ==
    [c \in {"A", "B", "C", "L"} |->
        CASE c = "A" -> [credits |-> 3, category |-> "Gen Ed", prerequisites |-> {}]
          [] c = "B" -> [credits |-> 3, category |-> "Gen Ed", prerequisites |-> {"A"}]
          [] c = "C" -> [credits |-> 3, category |-> "CS Core", prerequisites |-> {}]
          [] c = "L" -> [credits |-> 2, category |-> "Gen Ed", prerequisites |-> {}]]

\* Study plans: semester number -> list of course codes.
PlanScenario == (1 :> <<"A", "C">>) @@ (2 :> <<"B">>)
PlanEleven   == (1 :> <<"A", "C">>) @@ (2 :> <<"B", "L">>)
PlanTwelve   == (2 :> <<"X", "A", "X">>) @@ (3 :> <<"B", "C">>)
PlanCore     == (1 :> <<"C">>)
PlanLate     == (3 :> <<"C", "C">>)

\* A profile record as produced by generate_student (progress fields at
\* their initial values).
Profile(ability, plan) ==
    [academic_ability  |-> ability,
     dropout_chance    |-> 10,
     study_plan        |-> plan,
     credits_completed |-> 0,
     completed_courses |-> {},
     transcript        |-> <<>>,
     repeat_courses    |-> <<>>,
     gpa               |-> 0,
     graduated         |-> FALSE,
     dropped_out       |-> FALSE]

\* Values of dropout_chance: generate_student draws it from 0.05 .. 0.2.
DropoutChances == {5, 10, 20}

\* The populations (students_data) the model is run on.
StudentsData ==
    { <<Profile(99, PlanScenario), Profile(100, PlanLate)>>,
      <<Profile(100, PlanTwelve), Profile(100, PlanEleven)>>,
      <<Profile(0, PlanTwelve), Profile(100, PlanLate)>>,
      <<Profile(100, PlanEleven), Profile(0, PlanCore), Profile(100, PlanLate)>>,
      <<Profile(0, PlanCore), [Profile(0, PlanCore) EXCEPT !.dropout_chance = 20]>> }

\* The values of required_credits the model is constructed with.
RequiredCreditsChoices == {6, 120}

\* The two driver scripts (each has a __main__ loop over UniversityModel.step).
Drivers == {"simulation_runner", "data_loader"}

\* simulation_runner: for step_num in range(14).
CeilingRunner == 14

\* data_loader: for _ in range(12).
CeilingLoader == 12

\* The semester ceiling of a driver.
Ceiling(d) == IF d = "simulation_runner" THEN CeilingRunner ELSE CeilingLoader

\* The attributes of a UniversityModel object (those set by __init__; the
\* class defines no other data attribute and step adds none).
ModelAttributes ==
    {"course_catalog", "required_credits", "schedule", "semester_count",
     "running", "core_courses", "datacollector"}

\* graduation_semester = None
None == 0

Grades == {"A", "B", "C", "D", "F"}

\* ------------------------------------------------------------------------
\* State
\* ------------------------------------------------------------------------
VARIABLES
    agents,            \* schedule.agents: agent id -> StudentAgent fields
    required_credits,  \* UniversityModel.required_credits
    semester_count,    \* UniversityModel.semester_count
    running,           \* UniversityModel.running
    model_vars,        \* last row collected by the DataCollector, <<>> before the first
    step_num,          \* loop variable of the driver
    pc,                \* driver position: "loop", "done" or "AttributeError"
    driver,            \* the driver script that runs the model
    step_calls         \* agent id -> calls of its step in the last schedule.step()

vars == <<agents, required_credits, semester_count, running, model_vars, step_num, pc,
          driver, step_calls>>

AgentIds == DOMAIN agents

\* ------------------------------------------------------------------------
\* Helpers
\* ------------------------------------------------------------------------
Range(s) == {s[k] : k \in DOMAIN s}

RECURSIVE SumOver(_, _)
SumOver(f, S) ==
    IF S = {} THEN 0
    ELSE LET x == CHOOSE x \in S : TRUE IN f[x] + SumOver(f, S \ {x})

\* list.remove(x): drops the first occurrence of x.
RECURSIVE Remove(_, _)
Remove(s, x) ==
    IF s = <<>> THEN <<>>
    ELSE IF Head(s) = x THEN Tail(s)
    ELSE <<Head(s)>> \o Remove(Tail(s), x)

\* round(num / den, 2) in hundredths: nearest, ties to even.
round2(num, den) ==
    LET n == 100 * num
        q == n \div den
        r == n % den
    IN  IF 2 * r < den THEN q
        ELSE IF 2 * r > den THEN q + 1
        ELSE IF q % 2 = 0 THEN q ELSE q + 1

\* Variant of the credit lookup that counts every course as 3 credits.
Credits_Flat3(course_code) == 3

\* Variant of the credit lookup that counts a course without entry as 0.
Credits_DefaultZero(course_code) ==
    IF course_code \in DOMAIN course_catalog
       /\ "credits" \in DOMAIN course_catalog[course_code]
    THEN course_catalog[course_code].credits
    ELSE 0

\* course_catalog.get(course_code, {}).get("credits", 3)
Credits(course_code) ==
    IF course_code \in DOMAIN course_catalog
       /\ "credits" \in DOMAIN course_catalog[course_code]
    THEN course_catalog[course_code].credits
    ELSE 3

\* UniversityModel.core_courses
core_courses ==
    {c \in DOMAIN course_catalog : course_catalog[c].category = "CS Core"}

\* ------------------------------------------------------------------------
\* StudentAgent
\* ------------------------------------------------------------------------

\* Variant of the constructor that counts the semesters from 0.
NewAgent_SemesterZero(profile) ==
    [academic_ability    |-> profile.academic_ability,
     dropout_chance      |-> profile.dropout_chance,
     study_plan          |-> profile.study_plan,
     credits_completed   |-> profile.credits_completed,
     completed_courses   |-> profile.completed_courses,
     transcript          |-> profile.transcript,
     repeat_courses      |-> profile.repeat_courses,
     gpa                 |-> profile.gpa,
     graduated           |-> profile.graduated,
     dropped_out         |-> profile.dropped_out,
     semester_num        |-> 0,
     low_gpa_streak      |-> 0,
     graduation_semester |-> None]

\* StudentAgent.__init__
NewAgent(profile) ==
    [academic_ability    |-> profile.academic_ability,
     dropout_chance      |-> profile.dropout_chance,
     study_plan          |-> profile.study_plan,
     credits_completed   |-> profile.credits_completed,
     completed_courses   |-> profile.completed_courses,
     transcript          |-> profile.transcript,
     repeat_courses      |-> profile.repeat_courses,
     gpa                 |-> profile.gpa,
     graduated           |-> profile.graduated,
     dropped_out         |-> profile.dropped_out,
     semester_num        |-> 1,
     low_gpa_streak      |-> 0,
     graduation_semester |-> None]

\* The weights of assign_grade, in thousandths.
GradeWeights(ability) ==
    [g \in Grades |->
        CASE g = "A" -> ability * 40
          [] g = "B" -> ability * 25
          [] g = "C" -> (100 - ability) * 20
          [] g = "D" -> (100 - ability) * 15
          [] g = "F" -> (100 - ability) * 40]

\* assign_grade: random.choices returns a grade of positive weight.
assign_grade(ability) == {g \in Grades : GradeWeights(ability)[g] > 0}

\* The mapping of update_gpa.
mapping ==
    [g \in Grades |->
        CASE g = "A" -> 4 [] g = "B" -> 3 [] g = "C" -> 2 [] g = "D" -> 1 [] g = "F" -> 0]

\* Variant of update_gpa that sums the grade points without averaging.
update_gpa_Sum(transcript) ==
    IF DOMAIN transcript = {} THEN 0
    ELSE round2(SumOver([c \in DOMAIN transcript |-> mapping[transcript[c]]],
                        DOMAIN transcript),
                1)

\* Variant of update_gpa that weights each grade by the course's credits.
update_gpa_CreditWeighted(transcript) ==
    IF DOMAIN transcript = {} THEN 0
    ELSE round2(SumOver([c \in DOMAIN transcript |->
                            mapping[transcript[c]] * Credits(c)],
                        DOMAIN transcript),
                SumOver([c \in DOMAIN transcript |-> Credits(c)], DOMAIN transcript))

\* update_gpa: the gpa computed from a transcript.
update_gpa(transcript) ==
    IF DOMAIN transcript = {} THEN 0
    ELSE round2(SumOver([c \in DOMAIN transcript |-> mapping[transcript[c]]],
                        DOMAIN transcript),
                Cardinality(DOMAIN transcript))

\* Variant of the guard that tests dropped_out only.
IsTerminal_DroppedOnly(self) == self.dropped_out

\* Variant of the guard that tests graduated only.
IsTerminal_GraduatedOnly(self) == self.graduated

\* The guard at the top of step.
IsTerminal(self) == self.graduated \/ self.dropped_out

\* Variant of the early attrition condition that also looks at
\* dropout_chance.
EarlyAttrition_OrChance(self) ==
    /\ 2 <= self.semester_num /\ self.semester_num <= 4
    /\ (self.academic_ability < 65 \/ self.dropout_chance > 15)

\* Variant of the early attrition condition that includes semester 1.
EarlyAttrition_From1(self) ==
    1 <= self.semester_num /\ self.semester_num <= 4 /\ self.academic_ability < 65

\* The condition under which step draws for early attrition.
EarlyAttrition(self) ==
    2 <= self.semester_num /\ self.semester_num <= 4 /\ self.academic_ability < 65

\* Variant of the probation condition that starts one semester early.
LowGpa_From3(self) == self.semester_num >= 3 /\ self.gpa < 200

\* The condition of the academic probation rule.
LowGpa(self) == self.semester_num > 3 /\ self.gpa < 200

\* Variant of the stagnation rule that tests one semester late.
Stagnation_At6(self) == self.semester_num = 6 /\ self.credits_completed < 12

\* Variant of the stagnation rule with the threshold off by one.
Stagnation_Below11(self) == self.semester_num = 5 /\ self.credits_completed < 11

\* The stagnation rule.
Stagnation(self) == self.semester_num = 5 /\ self.credits_completed < 12

\* The condition under which step draws for late attrition.
LateAttrition(self) == self.semester_num >= 6

\* study_plan.get(str(semester_num), [])
PlannedCourses(self) ==
    IF self.semester_num \in DOMAIN self.study_plan
    THEN self.study_plan[self.semester_num]
    ELSE <<>>

\* The loop "for repeat in list(self.repeat_courses)": appends to
\* semester_courses the repeat courses neither in it nor completed.
RECURSIVE AddRepeats(_, _, _)
AddRepeats(semester_courses, repeats, completed) ==
    IF repeats = <<>> THEN semester_courses
    ELSE LET repeat == Head(repeats) IN
         IF repeat \notin Range(semester_courses) /\ repeat \notin completed
         THEN AddRepeats(Append(semester_courses, repeat), Tail(repeats), completed)
         ELSE AddRepeats(semester_courses, Tail(repeats), completed)

\* semester_courses as iterated by the simulation loop.
SemesterCourses(self) ==
    AddRepeats(PlannedCourses(self), self.repeat_courses, self.completed_courses)

\* Variant of the loop body that leaves a passed course in repeat_courses.
RecordGrade_KeepRepeat(self, course_code, grade) ==
    LET t == [c \in DOMAIN self.transcript \cup {course_code} |->
                 IF c = course_code THEN grade ELSE self.transcript[c]]
    IN  IF grade = "F"
        THEN [self EXCEPT
                !.transcript = t,
                !.repeat_courses =
                    IF course_code \notin Range(@) THEN Append(@, course_code) ELSE @]
        ELSE [self EXCEPT
                !.transcript = t,
                !.completed_courses = @ \cup {course_code},
                !.credits_completed = @ + Credits(course_code)]

\* Variant of the loop body that appends a failed course without the
\* membership test.
RecordGrade_DupRepeat(self, course_code, grade) ==
    LET t == [c \in DOMAIN self.transcript \cup {course_code} |->
                 IF c = course_code THEN grade ELSE self.transcript[c]]
    IN  IF grade = "F"
        THEN [self EXCEPT
                !.transcript = t,
                !.repeat_courses = Append(@, course_code)]
        ELSE [self EXCEPT
                !.transcript = t,
                !.completed_courses = @ \cup {course_code},
                !.credits_completed = @ + Credits(course_code),
                !.repeat_courses =
                    IF course_code \in Range(@) THEN Remove(@, course_code) ELSE @]

\* The body of the simulation loop for one course that is not skipped.
RecordGrade(self, course_code, grade) ==
    LET t == [c \in DOMAIN self.transcript \cup {course_code} |->
                 IF c = course_code THEN grade ELSE self.transcript[c]]
    IN  IF grade = "F"
        THEN [self EXCEPT
                !.transcript = t,
                !.repeat_courses =
                    IF course_code \notin Range(@) THEN Append(@, course_code) ELSE @]
        ELSE [self EXCEPT
                !.transcript = t,
                !.completed_courses = @ \cup {course_code},
                !.credits_completed = @ + Credits(course_code),
                !.repeat_courses =
                    IF course_code \in Range(@) THEN Remove(@, course_code) ELSE @]

\* Variant of the loop without the skip of courses already passed.
AlreadyPassed_Never(self, course_code) == FALSE

\* The test "if course_code in self.completed_courses: continue".
AlreadyPassed(self, course_code) == course_code \in self.completed_courses

\* The simulation loop "for course_code in semester_courses", from
\* position k on; grades[k] is the grade drawn at position k.
RECURSIVE SimulateCourses(_, _, _, _)
SimulateCourses(self, semester_courses, grades, k) ==
    IF k > Len(semester_courses) THEN self
    ELSE IF AlreadyPassed(self, semester_courses[k])
         THEN SimulateCourses(self, semester_courses, grades, k + 1)
         ELSE SimulateCourses(RecordGrade(self, semester_courses[k], grades[k]),
                              semester_courses, grades, k + 1)

\* Variant of the graduation condition that tests the credits only.
CanGraduate_CreditsOnly(self, required) == self.credits_completed >= required

\* Variant of the graduation condition with a strict credit threshold.
CanGraduate_Strict(self, required) ==
    self.credits_completed > required /\ core_courses \subseteq self.completed_courses

\* The graduation condition.
CanGraduate(self, required) ==
    self.credits_completed >= required /\ core_courses \subseteq self.completed_courses

\* Variant of the graduation check that records the semester after the
\* increment.
CheckGraduation_NextSemester(self, required) ==
    IF CanGraduate(self, required)
    THEN [self EXCEPT
            !.graduated = TRUE,
            !.dropped_out = FALSE,
            !.graduation_semester = IF @ = None THEN self.semester_num + 1 ELSE @]
    ELSE self

\* The graduation check of step.
CheckGraduation(self, required) ==
    IF CanGraduate(self, required)
    THEN [self EXCEPT
            !.graduated = TRUE,
            !.dropped_out = FALSE,
            !.graduation_semester = IF @ = None THEN self.semester_num ELSE @]
    ELSE self

\* Variant of the enrollment part that leaves semester_num alone in the
\* step in which the agent graduates.
Enroll_StayOnGraduation(self, required, grades) ==
    LET semester_courses == SemesterCourses(self)
        s0 == IF self.semester_num \in DOMAIN self.study_plan
              THEN [self EXCEPT !.study_plan[self.semester_num] = semester_courses]
              ELSE self
        s1 == SimulateCourses(s0, semester_courses, grades, 1)
        s2 == [s1 EXCEPT !.gpa = update_gpa(s1.transcript)]
        s3 == CheckGraduation(s2, required)
    IN  IF s3.graduated THEN s3 ELSE [s3 EXCEPT !.semester_num = @ + 1]

\* Course enrollment, simulation, gpa update, graduation check and the
\* move to the next semester (the part of step after the dropout logic).
Enroll(self, required, grades) ==
    LET semester_courses == SemesterCourses(self)
        \* semester_courses aliases the plan's list when the plan has the key
        s0 == IF self.semester_num \in DOMAIN self.study_plan
              THEN [self EXCEPT !.study_plan[self.semester_num] = semester_courses]
              ELSE self
        s1 == SimulateCourses(s0, semester_courses, grades, 1)
        s2 == [s1 EXCEPT !.gpa = update_gpa(s1.transcript)]
        s3 == CheckGraduation(s2, required)
    IN  [s3 EXCEPT !.semester_num = @ + 1]

\* Variant of the dropout that still moves to the next semester.
DropOut_AndAdvance(self) == [self EXCEPT !.dropped_out = TRUE, !.semester_num = @ + 1]

\* "self.dropped_out = True; return": the step ends at once.
DropOut(self) == [self EXCEPT !.dropped_out = TRUE]

\* StudentAgent.step.  d holds the random outcomes of the call:
\* d.early and d.late are the results of "random.random() < 0.15" and
\* "random.random() < 0.02", d.grades the grades drawn by assign_grade.
step(self, required, d) ==
    IF IsTerminal(self) THEN self
    ELSE IF EarlyAttrition(self) /\ d.early
    THEN DropOut(self)
    ELSE IF LowGpa(self) /\ self.low_gpa_streak + 1 >= 2
    THEN DropOut([self EXCEPT !.low_gpa_streak = @ + 1])
    ELSE LET s == [self EXCEPT !.low_gpa_streak = IF LowGpa(self) THEN @ + 1 ELSE 0]
         IN  IF Stagnation(s) THEN DropOut(s)
             ELSE IF LateAttrition(s) /\ d.late THEN DropOut(s)
             ELSE Enroll(s, required, d.grades)

\* The random outcomes a call of step can consume in the state self.
Draws(self) ==
    IF IsTerminal(self)
    THEN {[early |-> FALSE, late |-> FALSE, grades |-> <<>>]}
    ELSE [early  : IF EarlyAttrition(self) THEN BOOLEAN ELSE {FALSE},
          late   : IF LateAttrition(self) THEN BOOLEAN ELSE {FALSE},
          grades : [1 .. Len(SemesterCourses(self)) -> assign_grade(self.academic_ability)]]

\* ------------------------------------------------------------------------
\* UniversityModel
\* ------------------------------------------------------------------------
count_graduated(as) == Cardinality({i \in DOMAIN as : as[i].graduated})

count_dropped_out(as) == Cardinality({i \in DOMAIN as : as[i].dropped_out})

\* Variant of count_enrolled that tests graduated only.
count_enrolled_NotGraduated(as) == Cardinality({i \in DOMAIN as : ~as[i].graduated})

count_enrolled(as) ==
    Cardinality({i \in DOMAIN as : ~as[i].graduated /\ ~as[i].dropped_out})

avg_gpa(as) ==
    LET gpas == {i \in DOMAIN as : as[i].gpa > 0}
    IN  IF gpas = {} THEN 0
        ELSE round2(SumOver([i \in gpas |-> as[i].gpa], gpas), 100 * Cardinality(gpas))

\* datacollector.collect(self): one row of the model reporters.
collect(as) ==
    [Graduated  |-> count_graduated(as),
     DroppedOut |-> count_dropped_out(as),
     Enrolled   |-> count_enrolled(as),
     AvgGPA     |-> avg_gpa(as)]

\* The random outcomes of one schedule.step(): one draw record per agent.
RECURSIVE AllDraws(_, _)
AllDraws(as, S) ==
    IF S = {} THEN {<<>>}
    ELSE LET i == CHOOSE i \in S : TRUE
         IN  {(i :> d) @@ f : d \in Draws(as[i]), f \in AllDraws(as, S \ {i})}

\* The activation orders of RandomActivation: the shuffled agent list, any
\* permutation of the agent ids.
RECURSIVE shuffle(_)
shuffle(ids) ==
    IF ids = {} THEN {<<>>}
    ELSE UNION {{<<i>> \o o : o \in shuffle(ids \ {i})} : i \in ids}

\* Variant of the activation loop that stops before the last agent.
RECURSIVE activate_SkipLast(_, _, _, _, _)
activate_SkipLast(st, order, required, draws, k) ==
    IF k >= Len(order) THEN st
    ELSE LET i == order[k] IN
         activate_SkipLast(
             [agents |-> [st.agents EXCEPT ![i] = step(@, required, draws[i])],
              calls  |-> [st.calls EXCEPT ![i] = @ + 1]],
             order, required, draws, k + 1)

\* Variant of the activation loop in which the agents share one transcript
\* object: the transcript of the agent just stepped is that of every agent.
RECURSIVE activate_SharedTranscript(_, _, _, _, _)
activate_SharedTranscript(st, order, required, draws, k) ==
    IF k > Len(order) THEN st
    ELSE LET i == order[k]
             stepped == [st.agents EXCEPT ![i] = step(@, required, draws[i])]
         IN  activate_SharedTranscript(
                 [agents |-> [j \in DOMAIN stepped |->
                                 [stepped[j] EXCEPT !.transcript = stepped[i].transcript]],
                  calls  |-> [st.calls EXCEPT ![i] = @ + 1]],
                 order, required, draws, k + 1)

\* The loop of schedule.step() from position k of the activation order on:
\* "agent.step()" for each agent of the order.  st.agents are the agents,
\* st.calls counts the calls of each agent's step.
RECURSIVE activate(_, _, _, _, _)
activate(st, order, required, draws, k) ==
    IF k > Len(order) THEN st
    ELSE LET i == order[k] IN
         activate([agents |-> [st.agents EXCEPT ![i] = step(@, required, draws[i])],
                   calls  |-> [st.calls EXCEPT ![i] = @ + 1]],
                  order, required, draws, k + 1)

\* schedule.step() of RandomActivation with the given activation order.
schedule_step(as, required, draws, order) ==
    activate([agents |-> as, calls |-> [i \in DOMAIN as |-> 0]],
             order, required, draws, 1)

\* Variant of the stop test that stops as soon as any student has ended.
StopIfNoStudents_AnyEnded(as, r) ==
    IF count_graduated(as) + count_dropped_out(as) > 0 THEN FALSE ELSE r

\* "if self.count_enrolled() == 0: self.running = False"
StopIfNoStudents(as, r) == IF count_enrolled(as) = 0 THEN FALSE ELSE r

\* Variant of the loop bound that is off by one.
InRange_Inclusive(n, d) == n <= Ceiling(d)

\* "for step_num in range(ceiling)": the loop has a next iteration.
InRange(n, d) == n < Ceiling(d)

\* The progress update of simulation_runner, every 2 semesters; it reads
\* bscs_model.current_term.
ProgressUpdate(n, d) == d = "simulation_runner" /\ (n + 1) % 2 = 0

\* The attribute read model.<name> succeeds.
HasAttr(name) == name \in ModelAttributes

\* UniversityModel.__init__ followed by the start of the driver loop.
Init ==
    /\ \E students_data \in StudentsData :
          agents = [i \in DOMAIN students_data |-> NewAgent(students_data[i])]
    /\ required_credits \in RequiredCreditsChoices
    /\ semester_count = 0
    /\ running = TRUE
    /\ model_vars = <<>>
    /\ step_num = 0
    /\ pc = "loop"
    /\ driver \in Drivers
    /\ step_calls = [i \in DOMAIN agents |-> 0]

\* One iteration of the driver loop that calls UniversityModel.step.  In
\* simulation_runner the iteration ends with the progress update, which
\* raises AttributeError when the model has no current_term.
UniversityModel_step ==
    /\ pc = "loop"
    /\ InRange(step_num, driver)
    /\ running
    /\ semester_count' = semester_count + 1
    /\ model_vars' = collect(agents)
    /\ \E order \in shuffle(AgentIds), draws \in AllDraws(agents, AgentIds) :
          LET st == schedule_step(agents, required_credits, draws, order) IN
          /\ agents' = st.agents
          /\ step_calls' = st.calls
    /\ running' = StopIfNoStudents(agents', running)
    /\ IF ProgressUpdate(step_num, driver) /\ ~HasAttr("current_term")
       THEN pc' = "AttributeError" /\ step_num' = step_num
       ELSE pc' = "loop" /\ step_num' = step_num + 1
    /\ UNCHANGED <<required_credits, driver>>

\* The driver leaves the loop early: "if not bscs_model.running: break".
DriverBreak ==
    /\ pc = "loop"
    /\ InRange(step_num, driver)
    /\ ~running
    /\ pc' = "done"
    /\ UNCHANGED <<agents, required_credits, semester_count, running, model_vars, step_num,
                   driver, step_calls>>

\* The driver's range is exhausted.
DriverExhausted ==
    /\ pc = "loop"
    /\ ~InRange(step_num, driver)
    /\ pc' = "done"
    /\ UNCHANGED <<agents, required_credits, semester_count, running, model_vars, step_num,
                   driver, step_calls>>

Next == UniversityModel_step \/ DriverBreak \/ DriverExhausted

Spec == Init /\ [][Next]_vars

\* ------------------------------------------------------------------------
\* Properties
\* ------------------------------------------------------------------------

\* The agent was constructed and has not yet ended (state ACTIVE).
Active(i) == ~agents[i].graduated /\ ~agents[i].dropped_out

\* Every "CS Core" course of the catalog is in the completed courses of a.
AllCoreCompleted(a) ==
    \A c \in DOMAIN course_catalog :
        course_catalog[c].category = "CS Core" => c \in a.completed_courses

\* C1: in every reachable state no agent is both graduated and dropped out.
C1_NeverGraduatedAndDropped ==
    \A i \in AgentIds : ~(agents[i].graduated /\ agents[i].dropped_out)

\* Some agent has graduated and another has dropped out, after several steps.
C1_Witness ==
    /\ semester_count >= 2
    /\ \E i \in AgentIds : agents[i].graduated
    /\ \E j \in AgentIds : agents[j].dropped_out

\* C2: a step call on an agent that is graduated or dropped out changes no
\* field of that agent (so no transition leaves a terminal state).
C2_TerminalStepIsNoOp ==
    [][\A i \in AgentIds :
          (agents[i].graduated \/ agents[i].dropped_out) => agents'[i] = agents[i]]_vars

\* A graduated agent and a dropped-out agent have both been stepped again
\* after they ended.
C2_Witness ==
    /\ \E i \in AgentIds :
          agents[i].graduated /\ semester_count > agents[i].graduation_semester
    /\ \E j \in AgentIds :
          agents[j].dropped_out /\ semester_count > agents[j].semester_num

\* C3: an agent becomes graduated in a step only if after the courses of
\* that step credits_completed >= required_credits and every CS Core course
\* is completed; an agent with a core course missing is never graduated.
C3_GraduationNeedsCreditsAndCore ==
    [][\A i \in AgentIds :
          agents'[i].graduated =>
              /\ agents'[i].credits_completed >= required_credits
              /\ AllCoreCompleted(agents'[i])]_vars

\* An agent has been stepped, holds the required credits, misses a core
\* course and is not graduated, while another agent has graduated.
C3_Witness ==
    /\ \E i \in AgentIds :
          /\ agents[i].semester_num >= 2
          /\ agents[i].credits_completed >= required_credits
          /\ ~AllCoreCompleted(agents[i])
          /\ ~agents[i].graduated
    /\ \E j \in AgentIds : agents[j].graduated

\* The missing prerequisites of a course for an agent.
MissingPrereqs(a, course_code) ==
    IF course_code \in DOMAIN course_catalog
    THEN course_catalog[course_code].prerequisites \ a.completed_courses
    ELSE {}

\* C4: in a step of an active agent, a candidate course with a prerequisite
\* missing from completed_courses receives no transcript entry in that step
\* and is neither completed nor added to repeat_courses.
C4_PrerequisiteGating ==
    [][\A i \in AgentIds :
          \A c \in Range(SemesterCourses(agents[i])) :
              (Active(i) /\ MissingPrereqs(agents[i], c) # {}) =>
                  /\ (c \in DOMAIN agents'[i].transcript) = (c \in DOMAIN agents[i].transcript)
                  /\ (c \in DOMAIN agents[i].transcript =>
                         agents'[i].transcript[c] = agents[i].transcript[c])
                  /\ c \notin agents'[i].completed_courses
                  /\ (c \in Range(agents'[i].repeat_courses))
                         = (c \in Range(agents[i].repeat_courses))]_vars

\* C5: no course code is in both completed_courses and repeat_courses.
C5_CompletedRepeatDisjoint ==
    \A i \in AgentIds :
        agents[i].completed_courses \cap Range(agents[i].repeat_courses) = {}

\* Course A failed in semester 1, was inserted as a retake into the plan
\* entry of semester 2 and passed, while another course is still to repeat.
C5_Witness ==
    \E i \in AgentIds :
        /\ 1 \in DOMAIN agents[i].study_plan
        /\ agents[i].study_plan[1] = <<"A", "C">>
        /\ 2 \in DOMAIN agents[i].study_plan
        /\ "A" \in Range(agents[i].study_plan[2])
        /\ "A" \in agents[i].completed_courses
        /\ agents[i].repeat_courses # <<>>

\* C6: credits_completed never decreases in a step, and it grows by exactly
\* the credits of the courses that the step added to completed_courses (so
\* it grows only when a course passes for the first time).
C6_CreditsMonotone ==
    [][\A i \in AgentIds :
          LET new == agents'[i].completed_courses \ agents[i].completed_courses IN
          /\ agents'[i].credits_completed >= agents[i].credits_completed
          /\ agents[i].completed_courses \subseteq agents'[i].completed_courses
          /\ agents'[i].credits_completed - agents[i].credits_completed
                = SumOver([c \in new |-> Credits(c)], new)]_vars

\* An agent whose plan lists X twice in one semester has passed X and the
\* three other courses of its plan.
C6_Witness ==
    \E i \in AgentIds :
        /\ 2 \in DOMAIN agents[i].study_plan
        /\ Len(SelectSeq(agents[i].study_plan[2], LAMBDA c : c = "X")) = 2
        /\ agents[i].completed_courses = {"X", "A", "B", "C"}
        /\ agents[i].credits_completed = 12

\* C7: an active agent stepped with semester_num = 5 and fewer than 12
\* credits is dropped out after the step; one stepped with semester_num = 5,
\* at least 12 credits and gpa >= 2.0 is not dropped out after the step.
C7_StagnationRule ==
    [][\A i \in AgentIds :
          (Active(i) /\ agents[i].semester_num = 5) =>
              /\ agents[i].credits_completed < 12 => agents'[i].dropped_out
              /\ (agents[i].credits_completed >= 12 /\ agents[i].gpa >= 200) =>
                     ~agents'[i].dropped_out]_vars

\* One agent was dropped at semester 5 with 11 credits by the stagnation
\* rule alone, another passed semester 5 with 12 credits and is enrolled.
C7_Witness ==
    /\ \E i \in AgentIds :
          /\ agents[i].dropped_out
          /\ agents[i].semester_num = 5
          /\ agents[i].credits_completed = 11
          /\ agents[i].low_gpa_streak = 0
    /\ \E j \in AgentIds :
          /\ Active(j)
          /\ agents[j].semester_num = 6
          /\ agents[j].credits_completed = 12

\* C8: initially and after every UniversityModel.step the graduated, dropped
\* out and enrolled counts add up to the number of agents.
C8_CountsPartitionPopulation ==
    count_graduated(agents) + count_dropped_out(agents) + count_enrolled(agents)
        = Cardinality(AgentIds)

\* After five steps one agent has dropped out and one is still enrolled.
C8_Witness ==
    /\ semester_count >= 5
    /\ count_dropped_out(agents) = 1
    /\ count_enrolled(agents) = 1

\* The agent of the end-to-end scenario: plan {1:[A,C], 2:[B]}.
IsScenarioAgent(a) ==
    /\ a.academic_ability = 99
    /\ DOMAIN a.study_plan = {1, 2}
    /\ a.study_plan[1] = <<"A", "C">>
    /\ Head(a.study_plan[2]) = "B"

\* The scenario agent after a first step in which A and C both passed.
ScenarioPassed(a) ==
    /\ IsScenarioAgent(a)
    /\ required_credits = 6
    /\ a.semester_num = 2
    /\ {"A", "C"} \subseteq a.completed_courses

\* C9: in the end-to-end scenario, when A and C both pass in step 1 the agent
\* has completed {A,C}, 6 credits, is graduated with graduation_semester 1,
\* and every later step leaves it unchanged (B is never attempted).
C9_EndToEndScenario ==
    [][\A i \in AgentIds :
          /\ ScenarioPassed(agents'[i]) =>
                /\ agents'[i].completed_courses = {"A", "C"}
                /\ agents'[i].credits_completed = 6
                /\ agents'[i].graduated
                /\ ~agents'[i].dropped_out
                /\ agents'[i].graduation_semester = 1
                /\ "B" \notin DOMAIN agents'[i].transcript
          /\ ScenarioPassed(agents[i]) => agents'[i] = agents[i]]_vars

\* The scenario agent passed A and C in step 1 and two steps have been made.
C9_Witness ==
    /\ semester_count >= 2
    /\ \E i \in AgentIds : ScenarioPassed(agents[i])

\* C10: gpa is between 0.0 and 4.0, and 0.0 whenever the transcript is empty.
C10_GpaRange ==
    \A i \in AgentIds :
        /\ 0 <= agents[i].gpa
        /\ agents[i].gpa <= 400
        /\ (DOMAIN agents[i].transcript = {} => agents[i].gpa = 0)

\* One agent has been stepped and still has an empty transcript, another
\* has a gpa of 4.0.
C10_Witness ==
    /\ \E i \in AgentIds :
          agents[i].semester_num >= 2 /\ DOMAIN agents[i].transcript = {}
    /\ \E j \in AgentIds : agents[j].gpa = 400

\* C11: every call of UniversityModel.step increments semester_count by
\* exactly one and calls the step of every agent exactly once, whatever the
\* activation order (so an enrolled agent that stays on moves one semester).
C11_EveryAgentSteppedOnce ==
    [][/\ semester_count' # semester_count =>
             /\ semester_count' = semester_count + 1
             /\ \A i \in AgentIds : step_calls'[i] = 1
       /\ (agents' # agents \/ step_calls' # step_calls) =>
             semester_count' = semester_count + 1
       /\ \A i \in AgentIds :
             (Active(i) /\ ~agents'[i].dropped_out /\ semester_count' # semester_count) =>
                 agents'[i].semester_num = agents[i].semester_num + 1]_vars

\* Two steps were made over a population of three agents.
C11_Witness ==
    /\ semester_count >= 2
    /\ Cardinality(AgentIds) = 3
    /\ \A i \in AgentIds : step_calls[i] = 1

\* C12: the aggregate row collected in the k-th UniversityModel.step equals
\* the counts and average gpa of the population at the end of that step.
C12_AggregatesAfterAdvance ==
    [][semester_count' # semester_count => model_vars' = collect(agents')]_vars

\* C13: after a UniversityModel.step (running was true before it) running is
\* false exactly when no agent is enrolled at the end of the step, and a
\* false running never becomes true again.
C13_RunningIffEnrolled ==
    [][/\ semester_count' # semester_count =>
             (running' = FALSE <=>
                 \A i \in AgentIds : agents'[i].graduated \/ agents'[i].dropped_out)
       /\ ~running => ~running']_vars

\* The run stopped early because every agent had ended.
C13_Witness ==
    /\ pc = "done"
    /\ ~running
    /\ semester_count >= 2
    /\ semester_count < CeilingLoader

\* C14: the driver loop ends after at most ceiling iterations (14 in
\* simulation_runner, 12 in data_loader): every iteration either leaves the
\* loop or advances the loop variable, which never exceeds the ceiling;
\* UniversityModel.step is called only inside the loop and while running is
\* true, so semester_count never exceeds the ceiling.
C14_DriverTerminates ==
    [][/\ pc = "loop" /\ (pc' # "loop" \/ step_num' = step_num + 1)
       /\ step_num' <= Ceiling(driver)
       /\ semester_count' <= Ceiling(driver)
       /\ semester_count' # semester_count => running]_vars

\* The loop of data_loader ran through all twelve iterations.
C14_Witness ==
    /\ pc = "done"
    /\ running
    /\ semester_count = CeilingLoader

\* C15: the model keeps a current term (Fall, Spring, Summer in rotation)
\* that every UniversityModel.step advances once and supplies to the agents;
\* so after every step the model has a current_term and the driver's read of
\* it succeeds.
C15_CurrentTermRotates ==
    [][semester_count' # semester_count =>
          HasAttr("current_term") /\ pc' # "AttributeError"]_vars

\* C16: a step in which an agent drops out changes none of its transcript,
\* completed_courses, repeat_courses, credits_completed, gpa,
\* graduation_semester and semester_num.
C16_DropoutShortCircuits ==
    [][\A i \in AgentIds :
          (~agents[i].dropped_out /\ agents'[i].dropped_out) =>
              /\ agents'[i].transcript = agents[i].transcript
              /\ agents'[i].completed_courses = agents[i].completed_courses
              /\ agents'[i].repeat_courses = agents[i].repeat_courses
              /\ agents'[i].credits_completed = agents[i].credits_completed
              /\ agents'[i].gpa = agents[i].gpa
              /\ agents'[i].graduation_semester = agents[i].graduation_semester
              /\ agents'[i].semester_num = agents[i].semester_num]_vars

\* An agent dropped out in a semester in which it had a course to repeat.
C16_Witness ==
    \E i \in AgentIds :
        /\ agents[i].dropped_out
        /\ agents[i].repeat_courses # <<>>
        /\ agents[i].semester_num >= 2

\* C17: in a step of an enrolled agent that early attrition does not drop,
\* semester_num > 3 and gpa < 2.0 add one to low_gpa_streak and drop the
\* agent when the streak reaches 2; otherwise the streak becomes 0.  The
\* streak stays in {0,1,2}, a streak of 2 means dropped out, and no agent
\* has a streak of 2 before its step with semester_num 5.
C17_AcademicProbation ==
    [][\A i \in AgentIds :
          LET a == agents[i]
              b == agents'[i]
              low == a.semester_num > 3 /\ a.gpa < 200
              early == b.dropped_out /\ a.semester_num <= 4
          IN  /\ (Active(i) /\ ~early /\ semester_count' # semester_count) =>
                    /\ low => /\ b.low_gpa_streak = a.low_gpa_streak + 1
                              /\ (b.low_gpa_streak >= 2 => b.dropped_out)
                    /\ ~low => b.low_gpa_streak = 0
              /\ b.low_gpa_streak \in {0, 1, 2}
              /\ b.low_gpa_streak = 2 => (b.dropped_out /\ b.semester_num >= 5)]_vars

\* An agent with at least 12 credits was dropped by the probation rule.
C17_Witness ==
    \E i \in AgentIds :
        /\ agents[i].dropped_out
        /\ agents[i].low_gpa_streak = 2
        /\ agents[i].credits_completed >= 12

\* C18: no step changes the study plan of an agent.
C18_StudyPlanReadOnly ==
    [][\A i \in AgentIds : agents'[i].study_plan = agents[i].study_plan]_vars

\* The academic terms in rotation.
Terms == <<"Fall", "Spring", "Summer">>

\* The term of the n-th semester, the first being Fall.
TermOf(n) == Terms[((n - 1) % 3) + 1]

\* The historically-typical term of a course: the term of the first
\* semester of the plan that lists it.
TypicalTerm(plan, course_code) ==
    LET sems == {n \in DOMAIN plan : course_code \in Range(plan[n])}
    IN  TermOf(CHOOSE n \in sems : \A m \in sems : n <= m)

\* C19: in a step in which an agent enrolls, a course to repeat that is not
\* in the semester's plan entry and not completed is attempted only if its
\* typical term is the current term of the step.
C19_TermMatchedRetake ==
    [][\A i \in AgentIds :
          \A c \in Range(agents[i].repeat_courses) :
              (/\ Active(i)
               /\ agents'[i].semester_num = agents[i].semester_num + 1
               /\ c \notin Range(PlannedCourses(agents[i]))
               /\ c \notin agents[i].completed_courses
               /\ TypicalTerm(agents[i].study_plan, c) # TermOf(semester_count'))
              => c \notin Range(SemesterCourses(agents[i]))]_vars

\* A list without duplicates.
NoDuplicates(seq) == \A k, l \in DOMAIN seq : seq[k] = seq[l] => k = l

\* The effect of grading course c with grade g, from pre to post.
Graded(pre, post, c, g) ==
    /\ DOMAIN post.transcript = DOMAIN pre.transcript \cup {c}
    /\ post.transcript[c] = g
    /\ \A x \in DOMAIN pre.transcript \ {c} : post.transcript[x] = pre.transcript[x]
    /\ NoDuplicates(post.repeat_courses)
    /\ g = "F" =>
          /\ c \in Range(post.repeat_courses)
          /\ post.credits_completed = pre.credits_completed
          /\ post.completed_courses = pre.completed_courses
    /\ g # "F" =>
          /\ c \in post.completed_courses
          /\ post.credits_completed = pre.credits_completed + Credits(c)
          /\ c \notin Range(post.repeat_courses)

\* C20: every grading of a course in a step an enrolled agent can make sets
\* the transcript entry to the drawn grade; an F leaves the course once in
\* repeat_courses and the credits unchanged; another grade puts the course
\* into completed_courses, adds its catalog credits and takes it out of
\* repeat_courses.  So in every state a transcript entry is F exactly for
\* the courses to repeat and passing exactly for the completed ones.
C20_TranscriptUpdate ==
    \A i \in AgentIds :
        /\ Active(i) =>
              LET L == SemesterCourses(agents[i]) IN
              \A g \in [1 .. Len(L) -> assign_grade(agents[i].academic_ability)] :
                  \A k \in 1 .. Len(L) :
                      LET pre == SimulateCourses(agents[i], SubSeq(L, 1, k - 1), g, 1)
                      IN  L[k] \notin pre.completed_courses =>
                              Graded(pre, RecordGrade(pre, L[k], g[k]), L[k], g[k])
        /\ NoDuplicates(agents[i].repeat_courses)
        /\ \A c \in DOMAIN agents[i].transcript :
              /\ agents[i].transcript[c] = "F" <=> c \in Range(agents[i].repeat_courses)
              /\ agents[i].transcript[c] # "F" <=> c \in agents[i].completed_courses

\* An agent failed X again after a semester that lists X twice, and passed A.
C20_Witness ==
    \E i \in AgentIds :
        /\ agents[i].semester_num >= 4
        /\ "X" \in DOMAIN agents[i].transcript
        /\ agents[i].transcript["X"] = "F"
        /\ "A" \in agents[i].completed_courses

\* The credits of a course as the catalog states them, 3 for a course
\* without a catalog entry.
CatalogCredits(c) ==
    IF c \in DOMAIN course_catalog THEN course_catalog[c].credits ELSE 3

\* C21: a course of the study plan without a catalog entry is graded like
\* any other course in a step in which the agent enrolls, and a step that
\* passes such courses adds exactly 3 credits for each of them (and the
\* catalog credits for the other courses it passes).
C21_MissingCatalogEntry ==
    [][\A i \in AgentIds :
          LET a == agents[i]
              b == agents'[i]
              passed == b.completed_courses \ a.completed_courses
              unlisted == passed \ DOMAIN course_catalog
              listed == passed \cap DOMAIN course_catalog
          IN  /\ \A c \in Range(SemesterCourses(a)) \ DOMAIN course_catalog :
                    (Active(i) /\ b.semester_num = a.semester_num + 1
                     /\ c \notin a.completed_courses)
                    => (c \in DOMAIN b.transcript /\ b.transcript[c] \in Grades)
              /\ unlisted # {} =>
                    b.credits_completed =
                        a.credits_completed + 3 * Cardinality(unlisted)
                        + SumOver([c \in listed |-> course_catalog[c].credits], listed)]_vars

\* An agent passed X, which has no catalog entry, and A in its second
\* semester and holds 6 credits.
C21_Witness ==
    \E i \in AgentIds :
        /\ agents[i].semester_num = 3
        /\ {"X", "A"} \subseteq agents[i].completed_courses
        /\ agents[i].credits_completed = 6

\* The grade points of a grade.
GradePoint(g) ==
    CASE g = "A" -> 4 [] g = "B" -> 3 [] g = "C" -> 2 [] g = "D" -> 1 [] g = "F" -> 0

Abs(n) == IF n < 0 THEN -n ELSE n

\* C22: after every step of an active agent that does not drop out, gpa is
\* the mean of the grade points of the transcript's entries, each course
\* counting once whatever its credits, rounded to 2 decimals (gpa in
\* hundredths is a nearest integer to 100 * sum / count), and 0 if the
\* transcript is empty.
C22_GpaIsUnweightedMean ==
    [][\A i \in AgentIds :
          (Active(i) /\ ~agents'[i].dropped_out /\ semester_count' # semester_count) =>
              LET t == agents'[i].transcript
                  n == Cardinality(DOMAIN t)
                  total == SumOver([c \in DOMAIN t |-> GradePoint(t[c])], DOMAIN t)
              IN  IF n = 0 THEN agents'[i].gpa = 0
                  ELSE 2 * Abs(100 * total - agents'[i].gpa * n) <= n]_vars

\* An agent holds three A and one B, the B in the 2-credit course L: its
\* gpa is 3.75, where a credit-weighted mean would be 3.82.
C22_Witness ==
    \E i \in AgentIds :
        /\ DOMAIN agents[i].transcript = {"A", "B", "C", "L"}
        /\ agents[i].transcript["L"] = "B"
        /\ agents[i].gpa = 375

\* C23: graduation_semester is unset exactly while the agent is not
\* graduated; it is written only in the step in which the agent graduates,
\* to the semester_num the agent had in that step, and never changes later.
C23_GraduationSemesterOnce ==
    [][\A i \in AgentIds :
          LET a == agents[i]
              b == agents'[i]
          IN  /\ (a.graduated <=> a.graduation_semester # None)
              /\ (b.graduated <=> b.graduation_semester # None)
              /\ b.graduation_semester # a.graduation_semester =>
                    /\ a.graduation_semester = None
                    /\ ~a.graduated /\ b.graduated
                    /\ b.graduation_semester = a.semester_num
                    /\ b.semester_num = a.semester_num + 1
              /\ (~a.graduated /\ b.graduated) =>
                    b.graduation_semester = a.semester_num]_vars

\* An agent graduated in its second semester and was stepped twice more.
C23_Witness ==
    \E i \in AgentIds :
        /\ agents[i].graduated
        /\ agents[i].graduation_semester = 2
        /\ agents[i].semester_num = 3
        /\ semester_count >= 4

C25_SemesterNumEveryActiveStep ==
    [][\A i \in AgentIds :
          semester_count' # semester_count =>
              agents'[i].semester_num =
                  IF Active(i) THEN agents[i].semester_num + 1
                  ELSE agents[i].semester_num]_vars

\* C25 as amended: semester_num starts at 1; a step call that begins while
\* the agent is active and does not drop it out adds exactly one (the step
\* in which it graduates included); the step in which the agent drops out
\* and the calls that begin in a terminal state leave it unchanged.
C25_SemesterNumAdvance ==
    /\ \A i \in AgentIds : agents[i].semester_num = 1
    /\ [][\A i \in AgentIds :
             semester_count' # semester_count =>
                 agents'[i].semester_num =
                     IF Active(i) /\ ~agents'[i].dropped_out
                     THEN agents[i].semester_num + 1
                     ELSE agents[i].semester_num]_vars

\* One agent graduated in its first semester and stands at 2, another
\* dropped out in its step of semester 3 and stands at 3, and both have been
\* stepped again since.
C25_Witness ==
    /\ semester_count >= 5
    /\ \E i \in AgentIds :
          /\ agents[i].graduated
          /\ agents[i].graduation_semester = 1
          /\ agents[i].semester_num = 2
    /\ \E j \in AgentIds : agents[j].dropped_out /\ agents[j].semester_num = 3

\* C26: no agent is dropped out after the first UniversityModel.step, and a
\* dropped-out agent always has semester_num >= 2.
C26_NoDropoutInFirstSemester ==
    /\ semester_count <= 1 => count_dropped_out(agents) = 0
    /\ \A i \in AgentIds : agents[i].dropped_out => agents[i].semester_num >= 2

\* After the first step an agent of low ability that failed its only course
\* is still enrolled.
C26_Witness ==
    /\ semester_count = 1
    /\ \E i \in AgentIds :
          /\ agents[i].academic_ability < 65
          /\ agents[i].transcript # <<>>
          /\ agents[i].gpa = 0
          /\ Active(i)

\* C27: an agent with semester_num >= 6 holds at least 12 credits.
C27_TwelveCreditsPastSemesterFive ==
    \A i \in AgentIds :
        agents[i].semester_num >= 6 => agents[i].credits_completed >= 12

\* An agent went past semester 5 with exactly 12 credits and is enrolled.
C27_Witness ==
    \E i \in AgentIds :
        /\ agents[i].semester_num >= 6
        /\ agents[i].credits_completed = 12
        /\ Active(i)

\* C28: an enrolled agent has semester_num = semester_count + 1 and an
\* agent that has ended has semester_num <= semester_count + 1.
C28_AgentsFollowModelClock ==
    \A i \in AgentIds :
        /\ Active(i) => agents[i].semester_num = semester_count + 1
        /\ agents[i].semester_num <= semester_count + 1

\* At the last step of data_loader one agent is enrolled in step with the
\* clock and another has stopped at an earlier semester.
C28_Witness ==
    /\ semester_count = CeilingLoader
    /\ \E i \in AgentIds : Active(i) /\ agents[i].semester_num = CeilingLoader + 1
    /\ \E j \in AgentIds : ~Active(j) /\ agents[j].semester_num < semester_count

\* C29: credits_completed is the sum of the catalog credits of the
\* completed courses (3 for a course without catalog entry).
C29_CreditsMatchCompletedCourses ==
    \A i \in AgentIds :
        agents[i].credits_completed =
            SumOver([c \in agents[i].completed_courses |-> CatalogCredits(c)],
                    agents[i].completed_courses)

\* An agent whose plan lists C twice in semester 3 passed it and holds the
\* 3 credits of C once.
C29_Witness ==
    \E i \in AgentIds :
        /\ 3 \in DOMAIN agents[i].study_plan
        /\ agents[i].study_plan[3] = <<"C", "C">>
        /\ agents[i].completed_courses = {"C"}
        /\ agents[i].credits_completed = 3

\* C30: in every reachable state, for every random outcome an agent can
\* draw, its step leaves dropout_chance unchanged, and an agent that differs
\* from it in dropout_chance only can draw exactly the same random outcomes
\* and its step gives, for each of them, the same state up to
\* dropout_chance.
C30_DropoutChanceUnused ==
    \A i \in AgentIds :
        \A v \in DropoutChances \ {agents[i].dropout_chance} :
            LET twin == [agents[i] EXCEPT !.dropout_chance = v] IN
            /\ \A d \in Draws(twin) : d \in Draws(agents[i])
            /\ \A d \in Draws(agents[i]) :
                  /\ d \in Draws(twin)
                  /\ step(agents[i], required_credits, d).dropout_chance
                        = agents[i].dropout_chance
                  /\ step(twin, required_credits, d)
                        = [step(agents[i], required_credits, d)
                              EXCEPT !.dropout_chance = v]

\* Two agents that differ in dropout_chance only have both failed C three
\* times and dropped out in semester 4.
C30_Witness ==
    \E i, j \in AgentIds :
        /\ agents[i].dropout_chance # agents[j].dropout_chance
        /\ [agents[i] EXCEPT !.dropout_chance = agents[j].dropout_chance] = agents[j]
        /\ agents[i].dropped_out
        /\ agents[i].semester_num = 4
        /\ agents[i].repeat_courses = <<"C">>

====
